---- MODULE Spec2Model ----
(***************************************************************************)
(* Oricon creative checker: the upload-and-check run of app.py main(), the *)
(* file normalizer of core/file_processor.py and the checker / response    *)
(* parser of core/openai_checker.py.                                       *)
(*                                                                         *)
(* Texts are sequences of tokens.  Each token stands for a fixed piece of  *)
(* text; the operators below say, for each token, the facts the code       *)
(* reads from the text: which fence it is, whether it is whitespace, which *)
(* marker phrases it contains, which JSON value it spells, and whether it  *)
(* is a single character (a slice ending at -1 drops one character).       *)
(*                                                                         *)
(* Spec is the run handler with the checker and the normalizer inside it;  *)
(* SpecParser applies _parse_response to every bounded reply text;         *)
(* SpecNormalizer applies process_uploaded_file to every extension         *)
(* spelling.                                                               *)
(***************************************************************************)
EXTENDS Integers, Sequences, FiniteSets, TLC

VARIABLES
    secrets,            \* st.secrets["openai"]["api_key"], or NoSecret
    env_key,            \* os.getenv("OPENAI_API_KEY", "")
    text_key,           \* value of the sidebar st.text_input
    PYMUPDF_AVAILABLE,  \* file_processor.PYMUPDF_AVAILABLE
    uploaded_files,     \* st.file_uploader(...) value
    results,            \* st.session_state.results
    processing,         \* st.session_state.processing
    notice,             \* last st.error shown by the run handler
    pc,                 \* position of the run handler
    i,                  \* index of the current file (1-based)
    normalized,         \* outcome of the last process_uploaded_file call
    j,                  \* index of the current payload (1-based)
    cm_results,         \* local `results` of check_multiple_images
    response,           \* outcome of the last chat.completions.create call
    content,            \* argument of the last / pending _parse_response
    display,            \* file_name argument of the last / pending _parse_response
    parsed,             \* outcome of the last _parse_response call
    origin,             \* history: how each record of `results` was produced
    cm_origin,          \* history: how each record of cm_results was produced
    log                 \* history: events of the current run, in order

vars == <<secrets, env_key, text_key, PYMUPDF_AVAILABLE, uploaded_files,
          results, processing, notice, pc, i, normalized, j, cm_results,
          response, content, display, parsed, origin, cm_origin, log>>

(***************************************************************************)
(* Bounds                                                                  *)
(***************************************************************************)
MaxLen == 3        \* tokens in a reply text given to the parser
MaxFiles == 2      \* files in one upload
MaxPayloads == 3   \* pages of one upload, all files together

Range(s) == {s[k] : k \in 1..Len(s)}

RECURSIVE SeqsUpTo(_, _)
SeqsUpTo(S, n) ==
    IF n = 0 THEN {<<>>}
    ELSE LET shorter == SeqsUpTo(S, n - 1)
         IN  shorter \cup {Append(s, x) : s \in {t \in shorter : Len(t) = n - 1}, x \in S}

(***************************************************************************)
(* Judgment labels and fixed strings of the source                         *)
(***************************************************************************)
Clean == "Clean"              \* "mondai nashi"  (no problem)
Violation == "Violation"      \* "mondai ari"    (has problem)
NeedsReview == "NeedsReview"  \* "you kakunin"   (needs review)
Error == "Error"              \* "eraa"          (error)
Judgments == {Clean, Violation, NeedsReview, Error}
Unknown == "fumei"            \* company_name sentinel "unknown"
None == "None"                \* Python None inside a record field
NoPage == -1                  \* page_num = None

(***************************************************************************)
(* Reply texts                                                             *)
(***************************************************************************)
FenceJson == "FJ"     \* ```json
Fence == "F"          \* ```
Space == "WS"         \* one whitespace character
Junk == "X"           \* one character that is no JSON and no whitespace, e.g. }
Cut == "CUT"          \* a longer token with its last character dropped
MkClean == "OK"       \* the Clean marker phrase
MkViolation == "NG"   \* the Violation marker phrase "mondai ari"
MkBanned == "BAN"     \* the marker phrase "kinshi" (prohibited)
MkFailed == "FAIL"    \* the marker phrase "fugoukaku" (failed)
MarkerTokens == {MkClean, MkViolation, MkBanned, MkFailed}
ObjectTokens == {"O_FULL", "O_LABEL", "O_BARE", "O_RAW", "O_ERROR"}
ValueTokens == ObjectTokens \cup {"LIST", "NULL"}
Alphabet == {FenceJson, Fence, Space, Junk} \cup MarkerTokens \cup ValueTokens
OneChar == {Space, Junk}

NoneContent == <<"None">>   \* message.content = None (no text in the reply)
Texts == SeqsUpTo(Alphabet, MaxLen)
Contents == Texts \cup {NoneContent}

\* A display name: the uploaded file's name and the page suffix (0: none).
Name(file, page) == [base |-> file, page |-> page]
EchoName == Name([stem |-> "echo", ext |-> "png"], 0)   \* a file name the model made up

FullElements ==
    [year |-> "2024", issuer |-> "oricon", ranking_name |-> "rank",
     position |-> "1", trademark_symbol |-> TRUE]
DefaultElements ==
    [year |-> None, issuer |-> None, ranking_name |-> None,
     position |-> None, trademark_symbol |-> FALSE]

\* The Python value each JSON token decodes to (json.loads of that text).
JsonValue(tok) ==
    CASE tok = "O_FULL" ->
           [file_name |-> EchoName, company_name |-> "acme", judgment |-> Clean,
            issues |-> <<>>, detected_elements |-> FullElements, notes |-> <<"ok">>]
      [] tok = "O_LABEL" ->
           [file_name |-> EchoName, company_name |-> "acme", judgment |-> "goukaku",
            issues |-> <<>>,
            detected_elements |-> [year |-> "2024", issuer |-> "oricon",
                                   ranking_name |-> "rank", position |-> "1"],
            notes |-> <<"ok">>]
      [] tok = "O_RAW" ->
           [file_name |-> EchoName, company_name |-> "acme", judgment |-> Violation,
            issues |-> <<[severity |-> "critical", category |-> "kinshi",
                          description |-> "d"]>>,
            detected_elements |-> FullElements, notes |-> <<"ok">>,
            raw_response |-> <<"model">>]
      [] tok = "O_ERROR" ->
           [file_name |-> EchoName, company_name |-> "acme", judgment |-> Error,
            issues |-> <<>>, detected_elements |-> FullElements, notes |-> <<"ok">>]
      [] tok = "O_BARE" -> [company_name |-> "acme"]

\* The marker phrases the text of a token contains (an object's text holds
\* its judgment label and its category strings).
PhrasesIn(tok) ==
    CASE tok \in MarkerTokens -> {tok}
      [] tok = "O_FULL" -> {MkClean}
      [] tok = "O_RAW" -> {MkViolation, MkBanned}
      [] OTHER -> {}

\* Python: phrase in content
Contains(text, phrase) == \E k \in 1..Len(text) : phrase \in PhrasesIn(text[k])

\* Python: "```" in content  ("```json" begins with "```")
IsFence(tok) == tok \in {Fence, FenceJson}

\* Python: content.find(sub-fence, start); token positions, 0 when not found.
FindFrom(text, start, toks) ==
    IF \E k \in start..Len(text) : text[k] \in toks
    THEN CHOOSE k \in start..Len(text) :
            text[k] \in toks /\ \A m \in start..(k - 1) : text[m] \notin toks
    ELSE 0

\* Python: content[json_start:-1], a slice that stops one character short.
DropLastChar(text) ==
    IF text = <<>> THEN <<>>
    ELSE LET front == SubSeq(text, 1, Len(text) - 1)
         IN  IF text[Len(text)] \in OneChar THEN front ELSE Append(front, Cut)

\* Python: content[json_start:json_end]; json_end = 0 stands for find() = -1.
Slice(text, json_start, json_end) ==
    IF json_end = 0
    THEN DropLastChar(SubSeq(text, json_start, Len(text)))
    ELSE SubSeq(text, json_start, json_end - 1)

\* Python: str.strip()
RECURSIVE strip(_)
strip(text) ==
    IF text = <<>> THEN <<>>
    ELSE IF Head(text) = Space THEN strip(Tail(text))
    ELSE IF text[Len(text)] = Space THEN strip(SubSeq(text, 1, Len(text) - 1))
    ELSE text

\* The candidate json_str of _parse_response.
json_str(text) ==
    IF \E k \in 1..Len(text) : text[k] = FenceJson
    THEN LET json_start == FindFrom(text, 1, {FenceJson}) + 1
         IN  strip(Slice(text, json_start, FindFrom(text, json_start, {Fence, FenceJson})))
    ELSE IF \E k \in 1..Len(text) : IsFence(text[k])
    THEN LET json_start == FindFrom(text, 1, {Fence, FenceJson}) + 1
         IN  strip(Slice(text, json_start, FindFrom(text, json_start, {Fence, FenceJson})))
    ELSE strip(text)

\* json.loads(s) returns (does not raise JSONDecodeError) exactly when s is
\* one JSON value.
Decodes(s) == Len(s) = 1 /\ s[1] \in ValueTokens

\* json.loads(s) for a text that decodes: the Python type and the value.
json_loads(s) ==
    IF s[1] \in ObjectTokens THEN [type |-> "dict", value |-> JsonValue(s[1])]
    ELSE IF s[1] = "LIST" THEN [type |-> "list"]
    ELSE [type |-> "NoneType"]

\* Python: d[k] = v on a dict
SetItem(d, k, v) == (k :> v) @@ d

Returned(v) == [exc |-> "none", ret |-> v]
Raised(e) == [exc |-> e]
NotCalled == [exc |-> "not called"]

ParseIssue ==
    [severity |-> "info", category |-> "parse error", description |-> "json failed"]

\* Faulty variant of create_fallback_result: the Violation markers are tried first.
create_fallback_result_violation_first(text, file_name) ==
    LET judgment ==
            IF Contains(text, MkViolation) \/ Contains(text, MkBanned)
               \/ Contains(text, MkFailed)
            THEN Violation
            ELSE IF Contains(text, MkClean) THEN Clean
                 ELSE NeedsReview
    IN  [file_name |-> file_name, company_name |-> Unknown, judgment |-> judgment,
         issues |-> <<ParseIssue>>, detected_elements |-> DefaultElements,
         notes |-> text, raw_response |-> text]

create_fallback_result(text, file_name) ==
    LET judgment ==
            IF Contains(text, MkClean) THEN Clean
            ELSE IF Contains(text, MkViolation) \/ Contains(text, MkBanned)
                    \/ Contains(text, MkFailed)
                 THEN Violation
                 ELSE NeedsReview
    IN  [file_name |-> file_name, company_name |-> Unknown, judgment |-> judgment,
         issues |-> <<ParseIssue>>, detected_elements |-> DefaultElements,
         notes |-> text, raw_response |-> text]

\* _parse_response: only json.JSONDecodeError is caught; the `in` test on a
\* None content and the item assignment on a non-dict raise TypeError.
parse_response(text, file_name) ==
    IF text = NoneContent THEN Raised("TypeError")
    ELSE IF ~Decodes(json_str(text))
    THEN Returned(create_fallback_result(text, file_name))
    ELSE IF json_loads(json_str(text)).type # "dict" THEN Raised("TypeError")
    ELSE Returned(SetItem(json_loads(json_str(text)).value, "file_name", file_name))

(***************************************************************************)
(* File normalizer (core/file_processor.py)                                *)
(***************************************************************************)
\* An uploaded file: its name (stem and the text after the last dot), and,
\* for the rasterizer, whether fitz can open and render its bytes, and its
\* page count.
File(stem, ext, pages, readable) ==
    [name |-> [stem |-> stem, ext |-> ext], pages |-> pages, readable |-> readable]

\* Path(file_name).suffix: the last dot and what follows it; a name that
\* only starts with a dot has no suffix.
suffix(name) == IF name.ext = "" \/ name.stem = "" THEN "" ELSE "." \o name.ext

\* str.lower() over the spellings the model draws from
lower(s) ==
    CASE s \in {".png", ".PNG", ".Png"} -> ".png"
      [] s \in {".jpg", ".JPG"} -> ".jpg"
      [] s \in {".jpeg", ".JPEG", ".JpEg"} -> ".jpeg"
      [] s \in {".gif", ".GIF"} -> ".gif"
      [] s \in {".webp", ".WEBP"} -> ".webp"
      [] s \in {".bmp", ".BMP"} -> ".bmp"
      [] s \in {".pdf", ".PDF", ".Pdf"} -> ".pdf"
      [] s \in {".txt", ".TXT"} -> ".txt"
      [] OTHER -> s

SUPPORTED_IMAGE_EXTENSIONS == {".png", ".jpg", ".jpeg", ".gif", ".webp", ".bmp"}
SUPPORTED_DOC_EXTENSIONS == {".pdf"}

media_type_map(ext) ==
    CASE ext = ".png" -> "image/png"
      [] ext = ".jpg" -> "image/jpeg"
      [] ext = ".jpeg" -> "image/jpeg"
      [] ext = ".gif" -> "image/gif"
      [] ext = ".webp" -> "image/webp"
      [] ext = ".bmp" -> "image/bmp"
      [] OTHER -> "image/png"

\* base64 text of the bytes of `file` (page 0), or of the PNG of its page k
b64(file, k) == [b64 |-> file.name, page |-> k]

process_image_bytes(file, ext) ==
    <<[image |-> b64(file, 0), media_type |-> media_type_map(ext)]>>

process_pdf_bytes(file, available) ==
    IF ~available THEN Raised("RuntimeError")
    ELSE IF ~file.readable THEN Raised("FileDataError")
    ELSE Returned([k \in 1..file.pages |->
                     [image |-> b64(file, k), media_type |-> "image/png"]])

\* Faulty variant of process_uploaded_file: the suffix is not lower-cased.
process_uploaded_file_case_sensitive(file, available) ==
    LET ext == suffix(file.name)
    IN  IF ext \in SUPPORTED_IMAGE_EXTENSIONS
        THEN Returned(process_image_bytes(file, ext))
        ELSE IF ext \in SUPPORTED_DOC_EXTENSIONS
        THEN process_pdf_bytes(file, available)
        ELSE Raised("ValueError")

process_uploaded_file(file, available) ==
    LET ext == lower(suffix(file.name))
    IN  IF ext \in SUPPORTED_IMAGE_EXTENSIONS
        THEN Returned(process_image_bytes(file, ext))
        ELSE IF ext \in SUPPORTED_DOC_EXTENSIONS
        THEN process_pdf_bytes(file, available)
        ELSE Raised("ValueError")

(***************************************************************************)
(* Checker (core/openai_checker.py)                                        *)
(***************************************************************************)
\* The record check_image builds in its except branch.
api_error_result(display_name, e) ==
    [file_name |-> display_name, company_name |-> Unknown, judgment |-> Error,
     issues |-> <<[severity |-> "critical", category |-> "system error",
                   description |-> e]>>,
     detected_elements |-> DefaultElements, notes |-> <<"api error, retry">>]

\* Faulty variant of display_name: the page suffix is the 0-based page_num.
display_name_zero_based(file_name, page_num) ==
    IF page_num # NoPage THEN Name(file_name, page_num) ELSE Name(file_name, 0)

\* display_name of check_image; page_num is 0-based or NoPage.
display_name(file_name, page_num) ==
    IF page_num # NoPage THEN Name(file_name, page_num + 1) ELSE Name(file_name, 0)

\* page_num argument check_multiple_images passes for the payload at 0-based
\* position k of n.
page_num_arg(k, n) == IF n > 1 THEN k ELSE NoPage

\* check_image for one outcome `resp` of chat.completions.create: the whole
\* body is inside try / except Exception.
check_image(resp, file_name, page_num) ==
    IF resp.exc # "none"
    THEN api_error_result(display_name(file_name, page_num), resp.exc)
    ELSE LET p == parse_response(resp.ret, display_name(file_name, page_num))
         IN  IF p.exc # "none"
             THEN api_error_result(display_name(file_name, page_num), p.exc)
             ELSE p.ret

\* How check_image came to its record (history only).
check_path(resp) ==
    IF resp.exc # "none" THEN "api raised"
    ELSE IF resp.ret = NoneContent THEN "parser raised"
    ELSE IF ~Decodes(json_str(resp.ret)) THEN "fallback"
    ELSE IF json_loads(json_str(resp.ret)).type # "dict" THEN "parser raised"
    ELSE "structured"

(***************************************************************************)
(* Run handler (app.py main)                                               *)
(***************************************************************************)
NoSecret == "absent"    \* 'openai' not in st.secrets

get_api_key ==
    IF secrets # NoSecret THEN secrets
    ELSE IF env_key # "" THEN env_key
    ELSE ""

\* api_key of main(): the default key, else the sidebar text input.
api_key == IF get_api_key # "" THEN get_api_key ELSE text_key

\* Faulty variant of run_allowed: the key is not checked.
run_allowed_without_key == uploaded_files # <<>>

\* The run button is enabled and the handler's own key check passes.
run_allowed == uploaded_files # <<>> /\ api_key # ""

\* OpenAICreativeChecker.__init__: the key it keeps; it raises ValueError
\* when that key is empty.
checker_api_key(key) == IF key # "" THEN key ELSE env_key

\* The record main() appends when a file's processing raises.
file_error_result(file, e) ==
    [file_name |-> Name(file.name, 0), company_name |-> Unknown, judgment |-> Error,
     issues |-> <<[severity |-> "critical", category |-> "processing error",
                   description |-> e]>>,
     detected_elements |-> << >>, notes |-> <<"file processing error">>]

\* Faulty variant of after_file_error: the exception ends the file loop.
after_file_error_aborts(k, n) == n + 1

\* The file loop after the per-file except clause: the next file.
after_file_error(k, n) == k + 1

\* Faulty variant of append_result: a failed call leaves no record.
append_result_skips_failure(rs, resp, file_name, k, n) ==
    IF resp.exc # "none" THEN rs
    ELSE Append(rs, check_image(resp, file_name, page_num_arg(k, n)))

\* check_multiple_images: results.append(result) for the payload at 0-based
\* position k of n.
append_result(rs, resp, file_name, k, n) ==
    Append(rs, check_image(resp, file_name, page_num_arg(k, n)))

\* r.get("judgment"): the record's judgment, None when it has none.
get_judgment(r) == IF "judgment" \in DOMAIN r THEN r.judgment ELSE None

\* sum(1 for r in results if r.get("judgment") == label)
RECURSIVE count_judgment(_, _)
count_judgment(rs, label) ==
    IF rs = <<>> THEN 0
    ELSE (IF get_judgment(Head(rs)) = label THEN 1 ELSE 0)
         + count_judgment(Tail(rs), label)

\* What the result column shows for no result: no metric at all.
NoSummary == << >>

\* Faulty variant of summary: the first counter takes every record that is
\* neither Violation nor NeedsReview.
summary_rest_is_clean(rs) ==
    IF rs = <<>> THEN NoSummary
    ELSE ("total" :> Len(rs))
         @@ (Clean :> Len(rs) - count_judgment(rs, Violation)
                             - count_judgment(rs, NeedsReview))
         @@ (Violation :> count_judgment(rs, Violation))
         @@ (NeedsReview :> count_judgment(rs, NeedsReview))

\* The summary of the result column, shown when the session list is not
\* empty: four metrics, each under its label (total, ok_count, ng_count,
\* warn_count).
summary(rs) ==
    IF rs = <<>> THEN NoSummary
    ELSE ("total" :> Len(rs))
         @@ (Clean :> count_judgment(rs, Clean))
         @@ (Violation :> count_judgment(rs, Violation))
         @@ (NeedsReview :> count_judgment(rs, NeedsReview))

Event(ev, file, page) == [ev |-> ev, file |-> file, page |-> page]
Origin(path, file, page, n) == [path |-> path, file |-> file, page |-> page, n |-> n]

\* Faulty variant of extend: the file's records take the place of the list.
extend_replaces(rs, new) == new

\* st.session_state.results.extend(results)
extend(rs, new) == rs \o new

\* Faulty variant of remote_calls: a failed call is made once more.
remote_calls_retry_on_failure(resp, file, page) ==
    IF resp.exc = "none"
    THEN <<Event("call", file, page), Event("reply", file, page)>>
    ELSE <<Event("call", file, page), Event("raise", file, page),
           Event("call", file, page), Event("raise", file, page)>>

\* check_image: the one statement that calls the remote model, and how the
\* call ends (it returns the reply or raises) before check_image goes on.
remote_calls(resp, file, page) ==
    <<Event("call", file, page),
      Event(IF resp.exc = "none" THEN "reply" ELSE "raise", file, page)>>

\* Replies the remote model gives during a run: a fenced conforming object,
\* an object with an unknown label, a JSON list, prose with a marker, no text.
AppReplies ==
    {<<FenceJson, "O_FULL", Fence>>, <<"O_LABEL">>, <<"LIST">>, <<MkViolation, Junk>>}
RemoteOutcomes == {Raised("APIError")} \cup {Returned(c) : c \in AppReplies}

\* Files of an upload.  A PDF has 1..MaxPayloads pages; one PDF is damaged
\* (fitz.open raises on it); d.txt is a file the normalizer does not support
\* (the upload widget's type list is not relied on).
AppFiles ==
    {File("a", "png", 1, TRUE), File("d", "txt", 1, TRUE), File("c", "pdf", 1, FALSE)}
    \cup {File("b", "PDF", n, TRUE) : n \in 1..MaxPayloads}

\* Pages a file asks of the remote model when everything works.
PayloadCount(file) ==
    IF lower(suffix(file.name)) \in SUPPORTED_IMAGE_EXTENSIONS THEN 1
    ELSE IF lower(suffix(file.name)) \in SUPPORTED_DOC_EXTENSIONS /\ file.readable
    THEN file.pages
    ELSE 0

RECURSIVE TotalPayloads(_)
TotalPayloads(files) ==
    IF files = <<>> THEN 0 ELSE PayloadCount(Head(files)) + TotalPayloads(Tail(files))

Batches == {b \in SeqsUpTo(AppFiles, MaxFiles) : TotalPayloads(b) <= MaxPayloads}

NoFile == File("", "", 0, FALSE)

Init ==
    /\ secrets \in {NoSecret, "", "sk-s"}
    /\ env_key \in {"", "sk-e"}
    /\ text_key = ""
    /\ PYMUPDF_AVAILABLE \in BOOLEAN
    /\ uploaded_files \in Batches
    /\ results = <<>>
    /\ processing = FALSE
    /\ notice = ""
    /\ pc = "idle"
    /\ i = 0
    /\ normalized = NotCalled
    /\ j = 0
    /\ cm_results = <<>>
    /\ response = NotCalled
    /\ content = <<>>
    /\ display = Name(NoFile.name, 0)
    /\ parsed = NotCalled
    /\ origin = <<>>
    /\ cm_origin = <<>>
    /\ log = <<>>

\* The user types or clears the key in the sidebar text input, which is
\* rendered only when get_api_key() is empty.
EditKey ==
    /\ pc = "idle"
    /\ get_api_key = ""
    /\ text_key' = IF text_key = "" THEN "sk-t" ELSE ""
    /\ UNCHANGED <<secrets, env_key, PYMUPDF_AVAILABLE, uploaded_files, results,
                   processing, notice, pc, i, normalized, j, cm_results, response,
                   content, display, parsed, origin, cm_origin, log>>

\* The user asks for a run while it is not allowed: nothing is processed.
RefuseRun ==
    /\ pc = "idle"
    /\ ~run_allowed
    /\ notice' = "refused"
    /\ UNCHANGED <<secrets, env_key, text_key, PYMUPDF_AVAILABLE, uploaded_files,
                   results, processing, pc, i, normalized, j, cm_results, response,
                   content, display, parsed, origin, cm_origin, log>>

\* The run button: the list is cleared, processor and checker are built.
ClickRun ==
    /\ pc = "idle"
    /\ run_allowed
    /\ results' = <<>>
    /\ origin' = <<>>
    /\ IF checker_api_key(api_key) = ""
       THEN /\ processing' = FALSE
            /\ notice' = "ValueError"
            /\ log' = <<>>
            /\ pc' = "idle"
            /\ i' = 0
       ELSE /\ processing' = TRUE
            /\ notice' = ""
            /\ log' = <<Event("credential ok", 0, 0)>>
            /\ pc' = "file"
            /\ i' = 1
    /\ j' = 0
    /\ normalized' = NotCalled
    /\ cm_results' = <<>>
    /\ cm_origin' = <<>>
    /\ response' = NotCalled
    /\ content' = <<>>
    /\ display' = Name(NoFile.name, 0)
    /\ parsed' = NotCalled
    /\ UNCHANGED <<secrets, env_key, text_key, PYMUPDF_AVAILABLE, uploaded_files>>

\* One turn of the file loop up to check_multiple_images: the file is
\* normalized; a raise is caught per file and becomes one Error record.
ProcessFile ==
    /\ pc = "file"
    /\ i <= Len(uploaded_files)
    /\ LET file == uploaded_files[i]
           out == process_uploaded_file(file, PYMUPDF_AVAILABLE)
       IN  /\ normalized' = out
           /\ log' = Append(log, Event("normalize", i, 0))
           /\ IF out.exc # "none"
              THEN /\ results' = Append(results, file_error_result(file, out.exc))
                   /\ origin' = Append(origin, Origin("file error", i, 0, 0))
                   /\ i' = after_file_error(i, Len(uploaded_files))
                   /\ pc' = "file"
                   /\ j' = 0
              ELSE /\ UNCHANGED <<results, origin, i>>
                   /\ pc' = "payload"
                   /\ j' = 1
    /\ cm_results' = <<>>
    /\ cm_origin' = <<>>
    /\ UNCHANGED <<secrets, env_key, text_key, PYMUPDF_AVAILABLE, uploaded_files,
                   processing, notice, response, content, display, parsed>>

\* One turn of the loop of check_multiple_images: one remote call, answered
\* or failed, and the record check_image returns for it.
CheckImage ==
    /\ pc = "payload"
    /\ j <= Len(normalized.ret)
    /\ \E resp \in RemoteOutcomes :
          LET file_name == uploaded_files[i].name
              page_num == page_num_arg(j - 1, Len(normalized.ret))
          IN  /\ response' = resp
              /\ display' = display_name(file_name, page_num)
              /\ content' = IF resp.exc = "none" THEN resp.ret ELSE <<>>
              /\ parsed' = IF resp.exc = "none"
                           THEN parse_response(resp.ret, display_name(file_name, page_num))
                           ELSE NotCalled
              /\ cm_results' = append_result(cm_results, resp, file_name, j - 1,
                                             Len(normalized.ret))
              /\ cm_origin' = Append(cm_origin,
                                     Origin(check_path(resp), i, j - 1, Len(normalized.ret)))
              /\ log' = log \o remote_calls(resp, i, j)
    /\ j' = j + 1
    /\ UNCHANGED <<secrets, env_key, text_key, PYMUPDF_AVAILABLE, uploaded_files,
                   results, processing, notice, pc, i, normalized, origin>>

\* check_multiple_images returns and main() extends the session list.
ExtendResults ==
    /\ pc = "payload"
    /\ j > Len(normalized.ret)
    /\ results' = extend(results, cm_results)
    /\ origin' = origin \o cm_origin
    /\ i' = i + 1
    /\ pc' = "file"
    /\ UNCHANGED <<secrets, env_key, text_key, PYMUPDF_AVAILABLE, uploaded_files,
                   processing, notice, normalized, j, cm_results, response, content,
                   display, parsed, cm_origin, log>>

\* The file loop is over.
FinishRun ==
    /\ pc = "file"
    /\ i > Len(uploaded_files)
    /\ processing' = FALSE
    /\ pc' = "idle"
    /\ UNCHANGED <<secrets, env_key, text_key, PYMUPDF_AVAILABLE, uploaded_files,
                   results, notice, i, normalized, j, cm_results, response, content,
                   display, parsed, origin, cm_origin, log>>

Next ==
    \/ EditKey
    \/ RefuseRun
    \/ ClickRun
    \/ ProcessFile
    \/ CheckImage
    \/ ExtendResults
    \/ FinishRun

Spec == Init /\ [][Next]_vars

(***************************************************************************)
(* The response parser alone: _parse_response applied to every reply text  *)
(* of at most MaxLen tokens and to a reply without text.                   *)
(***************************************************************************)
ParserNames == {Name([stem |-> "a", ext |-> "png"], 0), Name([stem |-> "b", ext |-> "PDF"], 2)}

InitParser ==
    /\ secrets = NoSecret
    /\ env_key = ""
    /\ text_key = ""
    /\ PYMUPDF_AVAILABLE = TRUE
    /\ uploaded_files = <<>>
    /\ results = <<>>
    /\ processing = FALSE
    /\ notice = ""
    /\ pc = "parser"
    /\ i = 0
    /\ normalized = NotCalled
    /\ j = 0
    /\ cm_results = <<>>
    /\ response = NotCalled
    /\ content \in Contents
    /\ display \in ParserNames
    /\ parsed = NotCalled
    /\ origin = <<>>
    /\ cm_origin = <<>>
    /\ log = <<>>

ParseResponse ==
    /\ pc = "parser"
    /\ parsed' = parse_response(content, display)
    /\ pc' = "parsed"
    /\ UNCHANGED <<secrets, env_key, text_key, PYMUPDF_AVAILABLE, uploaded_files,
                   results, processing, notice, i, normalized, j, cm_results,
                   response, content, display, origin, cm_origin, log>>

NextParser == ParseResponse

SpecParser == InitParser /\ [][NextParser]_vars

(***************************************************************************)
(* The normalizer alone: process_uploaded_file applied to one file of      *)
(* every extension spelling.                                               *)
(***************************************************************************)
Stems == {"a", "b.v2", ""}
ImageSpellings ==
    {"png", "PNG", "Png", "jpg", "JPG", "jpeg", "JPEG", "JpEg", "gif", "GIF",
     "webp", "WEBP", "bmp", "BMP"}
PdfSpellings == {"pdf", "PDF", "Pdf"}
OtherSpellings == {"txt", "TXT", "svg", "docx", "pn", ""}

NormFiles ==
    {File(st, e, 1, TRUE) : st \in Stems, e \in ImageSpellings \cup OtherSpellings}
    \cup {File(st, e, n, r) : st \in Stems, e \in PdfSpellings,
                              n \in 1..MaxPayloads, r \in BOOLEAN}

InitNormalizer ==
    /\ secrets = NoSecret
    /\ env_key = ""
    /\ text_key = ""
    /\ PYMUPDF_AVAILABLE \in BOOLEAN
    /\ uploaded_files \in {<<f>> : f \in NormFiles}
    /\ results = <<>>
    /\ processing = FALSE
    /\ notice = ""
    /\ pc = "normalizer"
    /\ i = 1
    /\ normalized = NotCalled
    /\ j = 0
    /\ cm_results = <<>>
    /\ response = NotCalled
    /\ content = <<>>
    /\ display = Name(NoFile.name, 0)
    /\ parsed = NotCalled
    /\ origin = <<>>
    /\ cm_origin = <<>>
    /\ log = <<>>

Normalize ==
    /\ pc = "normalizer"
    /\ normalized' = process_uploaded_file(uploaded_files[i], PYMUPDF_AVAILABLE)
    /\ pc' = "normalized"
    /\ UNCHANGED <<secrets, env_key, text_key, PYMUPDF_AVAILABLE, uploaded_files,
                   results, processing, notice, i, j, cm_results, response, content,
                   display, parsed, origin, cm_origin, log>>

NextNormalizer == Normalize

SpecNormalizer == InitNormalizer /\ [][NextNormalizer]_vars

(***************************************************************************)
(* Properties                                                              *)
(***************************************************************************)
\* The parser took its fallback path for the text it was given.
TookFallback == content # NoneContent /\ ~Decodes(json_str(content))

\* The display name the record of history entry o must carry.
ExpectedName(o) ==
    Name(uploaded_files[o.file].name, IF o.n = 1 THEN 0 ELSE o.page + 1)

\* process_uploaded_file raises for the f-th uploaded file.
Raises(f) == process_uploaded_file(uploaded_files[f], PYMUPDF_AVAILABLE).exc # "none"

\* The f-th uploaded file has been handed to the normalizer in this run.
Processed(f) == \E k \in 1..Len(log) : log[k].ev = "normalize" /\ log[k].file = f

\* C1: _parse_response never propagates an exception: whatever the reply
\* text (or a reply without text), the call returns a record.
C1_ParserNeverRaises == pc = "parsed" => parsed.exc = "none"

\* C2: every record in the session result list has a judgment, and it is
\* one of Clean, Violation, NeedsReview, Error.
C2_JudgmentInEnum ==
    \A k \in 1..Len(results) :
        "judgment" \in DOMAIN results[k] /\ results[k].judgment \in Judgments

\* One step of check_multiple_images as C3 wants it.
C3_Step ==
    /\ (pc = "payload" /\ pc' = "payload") =>
          /\ Len(cm_results) = j - 1
          /\ Len(cm_results') = j
          /\ SubSeq(cm_results', 1, j - 1) = cm_results
          /\ cm_results'[j] = check_image(response', uploaded_files[i].name,
                                          page_num_arg(j - 1, Len(normalized.ret)))
    /\ (pc = "payload" /\ pc' = "file") =>
          /\ Len(cm_results) = Len(normalized.ret)
          /\ results' = results \o cm_results

\* C3: every turn of check_multiple_images adds exactly one record, at the
\* end, the one check_image made for this payload's call, and leaves the
\* earlier records as they were, whether the call failed or not; at its
\* return there are exactly n records, appended to the session list in order.
C3_OneRecordPerPayload == [][C3_Step]_vars

\* C3 witness: a three-page file whose second call failed is in the session
\* list with the records of pages one and three around the Error record.
C3_Witness ==
    \E k \in 2..(Len(results) - 1) :
        /\ origin[k].n = 3 /\ origin[k].page = 1 /\ origin[k].path = "api raised"
        /\ results[k].judgment = Error
        /\ origin[k - 1].path = "structured" /\ results[k - 1].judgment = Clean
        /\ origin[k + 1].path = "fallback" /\ results[k + 1].judgment = Violation

\* C4: every record check_multiple_images made carries the display name: the
\* file name alone for a single payload, the file name with the 1-based page
\* for one of several, on the structured, fallback and failure paths.
C4_FileNameIsDisplayName ==
    /\ \A k \in 1..Len(cm_results) : cm_results[k].file_name = ExpectedName(cm_origin[k])
    /\ \A k \in 1..Len(results) :
          origin[k].path # "file error" => results[k].file_name = ExpectedName(origin[k])

\* C4 witness: page two of a file of several pages, answered with a
\* conforming object that echoes another file name.
C4_Witness ==
    \E k \in 1..Len(results) :
        /\ origin[k].path = "structured" /\ origin[k].n > 1 /\ origin[k].page = 1
        /\ results[k].file_name = Name(uploaded_files[origin[k].file].name, 2)
        /\ results[k].file_name # EchoName

\* C5: on the fallback path the judgment is Clean when the text contains the
\* Clean marker, else Violation when it contains one of the three Violation
\* markers, else NeedsReview; never Error.
C5_FallbackPrecedence ==
    (pc = "parsed" /\ TookFallback) =>
        /\ parsed.exc = "none"
        /\ parsed.ret.judgment # Error
        /\ parsed.ret.judgment =
              IF \E k \in 1..Len(content) : MkClean \in PhrasesIn(content[k])
              THEN Clean
              ELSE IF \E k \in 1..Len(content) :
                         PhrasesIn(content[k]) \cap {MkViolation, MkBanned, MkFailed} # {}
                   THEN Violation
                   ELSE NeedsReview

\* C5 witness: a text holding both the Clean marker and a Violation marker
\* was parsed by the fallback and judged Clean.
C5_Witness ==
    /\ pc = "parsed" /\ TookFallback
    /\ MkClean \in Range(content) /\ MkViolation \in Range(content)
    /\ parsed.ret.judgment = Clean

\* C6: a record of check_image has judgment Error exactly when the remote
\* call raised for its payload.
C6_ErrorIffRaised ==
    \A k \in 1..Len(cm_results) :
        (cm_results[k].judgment = Error) <=> (cm_origin[k].path = "api raised")

\* C7: a record the parser returns has the raw_response field exactly when
\* the parser took the fallback path.
C7_RawResponseIffFallback ==
    (pc = "parsed" /\ parsed.exc = "none") =>
        (("raw_response" \in DOMAIN parsed.ret) <=> TookFallback)

\* Each failed file has its one Error record; a finished run skipped no file.
C8_State ==
    /\ \A f \in 1..Len(uploaded_files) :
          (Processed(f) /\ Raises(f)) =>
              /\ Cardinality({k \in 1..Len(origin) : origin[k].file = f}) = 1
              /\ \A k \in 1..Len(origin) :
                    origin[k].file = f =>
                        /\ results[k].judgment = Error
                        /\ results[k].file_name = Name(uploaded_files[f].name, 0)
    /\ (pc = "idle" /\ log # <<>>) => \A f \in 1..Len(uploaded_files) : Processed(f)

\* The step that handles a failing file.
C8_Step ==
    (pc = "file" /\ i <= Len(uploaded_files) /\ Raises(i)) =>
        /\ Len(results') = Len(results) + 1
        /\ SubSeq(results', 1, Len(results)) = results
        /\ pc' = "file"
        /\ i' = i + 1

\* C8: a file whose normalization raises contributes exactly one record, an
\* Error record under the file's own name, added behind the records already
\* in the list; the loop goes on, so a finished run has processed every file.
C8_BatchIsolation == []C8_State /\ [][C8_Step]_vars

\* C8 witness: a finished run whose first file failed and whose second file
\* has its normal record.
C8_Witness ==
    /\ pc = "idle" /\ Len(uploaded_files) >= 2 /\ Len(results) >= 2
    /\ Raises(1) /\ origin[1].path = "file error" /\ results[1].judgment = Error
    /\ origin[2].file = 2 /\ origin[2].path = "structured"

\* The extension -> MIME table of the claim.
ClaimedMime ==
    {<<".png", "image/png">>, <<".jpg", "image/jpeg">>, <<".jpeg", "image/jpeg">>,
     <<".gif", "image/gif">>, <<".webp", "image/webp">>, <<".bmp", "image/bmp">>}

OnePayloadPerPage(file, out) ==
    /\ out.exc = "none"
    /\ Len(out.ret) = file.pages
    /\ \A k \in 1..Len(out.ret) :
          out.ret[k].media_type = "image/png" /\ out.ret[k].image = b64(file, k)

\* C9, as stated: an image extension in any letter case gives one payload
\* with the table's MIME type, pdf gives one image/png payload per page in
\* page order, anything else fails as an unsupported file type.
C9_DispatchAsStated ==
    pc = "normalized" =>
        LET file == uploaded_files[1]
            ext == lower(suffix(file.name))
        IN  IF \E p \in ClaimedMime : p[1] = ext
            THEN /\ normalized.exc = "none"
                 /\ Len(normalized.ret) = 1
                 /\ <<ext, normalized.ret[1].media_type>> \in ClaimedMime
            ELSE IF ext = ".pdf"
            THEN OnePayloadPerPage(file, normalized)
            ELSE normalized.exc = "ValueError"

\* C9, amended: as stated for images and for other extensions; pdf gives one
\* image/png payload per page in page order when the rasterizer is
\* available and renders the document, fails with RuntimeError and no
\* payload when the rasterizer is unavailable, and fails with the
\* rasterizer's own error and no payload when it cannot open or render the
\* document.
C9_Dispatch ==
    pc = "normalized" =>
        LET file == uploaded_files[1]
            ext == lower(suffix(file.name))
        IN  IF \E p \in ClaimedMime : p[1] = ext
            THEN /\ normalized.exc = "none"
                 /\ Len(normalized.ret) = 1
                 /\ <<ext, normalized.ret[1].media_type>> \in ClaimedMime
            ELSE IF ext = ".pdf"
            THEN IF ~PYMUPDF_AVAILABLE THEN normalized.exc = "RuntimeError"
                 ELSE IF ~file.readable THEN normalized.exc = "FileDataError"
                 ELSE OnePayloadPerPage(file, normalized)
            ELSE normalized.exc = "ValueError"

\* C9 witness: a PDF of several pages with a mixed-case extension was turned
\* into its pages.
C9_Witness ==
    /\ pc = "normalized"
    /\ uploaded_files[1].name.ext = "Pdf" /\ uploaded_files[1].pages >= 2
    /\ normalized.exc = "none" /\ Len(normalized.ret) = uploaded_files[1].pages

\* A run under way has a credential and began with the credential check.
C10_State ==
    pc \in {"file", "payload"} =>
        api_key # "" /\ log # <<>> /\ log[1].ev = "credential ok"

\* A step taken without a credential processes nothing.
C10_Step ==
    api_key = "" =>
        /\ results' = results
        /\ log' = log
        /\ normalized' = normalized
        /\ response' = response

\* C10: while a run is under way the credential is not empty and the first
\* event of the run is the passed credential check; a step taken with an
\* empty credential normalizes nothing, calls nothing and leaves the result
\* list as it was.
C10_CredentialFirst == []C10_State /\ [][C10_Step]_vars

\* C10 witness: a run was asked for with files uploaded and no credential
\* anywhere, and was refused.
C10_Witness ==
    /\ notice = "refused" /\ uploaded_files # <<>>
    /\ secrets \in {NoSecret, ""} /\ env_key = "" /\ text_key = ""
    /\ results = <<>> /\ log = <<>>

\* C11: every record of the session list, whichever path produced it
\* (structured reply, parser fallback, remote-call error record, per-file
\* error record), carries detected_elements with a boolean trademark_symbol.
C11_TrademarkSymbolBoolean ==
    \A k \in 1..Len(results) :
        /\ "detected_elements" \in DOMAIN results[k]
        /\ "trademark_symbol" \in DOMAIN results[k].detected_elements
        /\ results[k].detected_elements.trademark_symbol \in BOOLEAN

\* Records of the session list with the given judgment, and those whose
\* judgment is none of the given ones.
Having(label) == {k \in 1..Len(results) : get_judgment(results[k]) = label}
NotHaving(labels) == {k \in 1..Len(results) : get_judgment(results[k]) \notin labels}

IsRemoteEvent(e) == e.ev \in {"call", "reply", "raise"}
RemoteEvents == SelectSeq(log, IsRemoteEvent)

\* The calls of the log made for the f-th uploaded file.
CallsFor(f) ==
    {k \in 1..Len(log) : log[k].ev = "call" /\ log[k].file = f}

\* The remote events of the log come in pairs, a call and its end (a reply
\* or a raise) for the same payload; the first call is for page 1 and each
\* later call is for the next page of the same file or page 1 of a later
\* file; while check_multiple_images is at payload j of file i, the calls
\* made for that file are j - 1.
C13_State ==
    LET remote == RemoteEvents
    IN  /\ Len(remote) % 2 = 0
        /\ \A k \in 1..(Len(remote) \div 2) :
              /\ remote[2 * k - 1].ev = "call"
              /\ remote[2 * k].ev \in {"reply", "raise"}
              /\ remote[2 * k].file = remote[2 * k - 1].file
              /\ remote[2 * k].page = remote[2 * k - 1].page
              /\ IF k = 1 THEN remote[1].page = 1
                 ELSE \/ /\ remote[2 * k - 1].file = remote[2 * k - 3].file
                         /\ remote[2 * k - 1].page = remote[2 * k - 3].page + 1
                      \/ /\ remote[2 * k - 1].file > remote[2 * k - 3].file
                         /\ remote[2 * k - 1].page = 1
        /\ pc = "payload" => Cardinality(CallsFor(i)) = j - 1

\* When check_multiple_images returns for a file of n payloads, the calls
\* made for that file are n; a step that calls the remote model makes one
\* call, for the payload the loop is at.
C13_Step ==
    /\ (pc = "payload" /\ pc' = "file")
          => Cardinality(CallsFor(i)) = Len(normalized.ret)
    /\ (pc = "payload" /\ pc' = "payload" /\ log' # log)
          => /\ j <= Len(normalized.ret)
             /\ SubSeq(log', 1, Len(log)) = log
             /\ Len(log') = Len(log) + 2
             /\ log'[Len(log) + 1] = Event("call", i, j)

\* C13: the Orchestrator never retries and never overlaps: during
\* check_multiple_images over n payloads the remote model is called exactly
\* n times, once per payload in payload order, whether the calls fail or
\* not, and every call has ended (with a reply or a raise) before the next
\* one starts.
C13_OneCallPerPayload == []C13_State /\ [][C13_Step]_vars

C13_Witness ==
    /\ pc = "idle"
    /\ Len(RemoteEvents) = 2 * MaxPayloads
    /\ Len(uploaded_files) = 1
    /\ RemoteEvents[2].ev = "raise"
    /\ RemoteEvents[4].ev = "reply"
    /\ \A k \in 1..MaxPayloads : RemoteEvents[2 * k - 1] = Event("call", 1, k)

\* s is an initial segment of t.
IsPrefix(s, t) == Len(s) <= Len(t) /\ SubSeq(t, 1, Len(s)) = s

\* The records of the session list stand in file order and, within a file,
\* in page order.
C14_State ==
    /\ Len(origin) = Len(results)
    /\ \A k, m \in 1..Len(origin) :
          k < m => \/ origin[k].file < origin[m].file
                   \/ origin[k].file = origin[m].file /\ origin[k].page < origin[m].page

\* A step keeps the old list as an initial segment of the new one, unless it
\* is the start of a run that passed the credential check, which empties
\* the list; a refused run leaves the list as it is.
C14_Step ==
    /\ \/ IsPrefix(results, results')
       \/ /\ pc = "idle" /\ uploaded_files # <<>> /\ api_key # ""
          /\ results' = <<>>
          /\ log' \in {<<>>, <<Event("credential ok", 0, 0)>>}
    /\ (pc = "idle" /\ ~run_allowed) => results' = results

\* C14: the session result list is append-only within a run, records being
\* added in file order and within a file in page order; the list is emptied
\* only at the start of a new run that passed the credential check, and a
\* refused run leaves it untouched.
C14_AppendOnly == []C14_State /\ [][C14_Step]_vars

C14_Witness ==
    /\ pc = "idle"
    /\ notice = "refused"
    /\ Len(results) = 3
    /\ origin[1].file = 1
    /\ origin[2].file = 2 /\ origin[2].page = 0
    /\ origin[3].file = 2 /\ origin[3].page = 1

====
